---- MODULE Spec2Model ----
(***************************************************************************)
(* Verification model of the storage server (src/main.go): storeFiles,     *)
(* getFileContent, downloadFile, downloadZip, createZipArchive and         *)
(* isTextFile, over a model of the storage filesystem.                     *)
(*                                                                         *)
(* A path string is a sequence of symbols.  The symbols "/" and "." are    *)
(* the separator and the dot; every other symbol ("a", "storage", "u1")    *)
(* stands for a run of ordinary name characters.                           *)
(***************************************************************************)
EXTENDS Integers, Sequences, FiniteSets, TLC

\* ------------------------------------------------------------------------
\* Bounds of the model
\* ------------------------------------------------------------------------
MaxBatch == 2           \* files in one multipart batch
MaxStores == 2          \* storeFiles requests served one after the other
MaxContentLen == 1      \* bytes of an uploaded part
MaxConcStores == 2      \* storeFiles requests that may overlap
MaxConcContentLen == 2  \* bytes of a part uploaded by overlapping requests
MaxTravLen == 7         \* symbols of a caller-supplied path
MaxShortLen == 12       \* the short buffers handed to isTextFile
MaxBufLen == 100000     \* the longest buffer handed to isTextFile

\* ------------------------------------------------------------------------
\* Strings
\* ------------------------------------------------------------------------
Max(S) == CHOOSE x \in S : \A y \in S : y <= x
Min(S) == CHOOSE x \in S : \A y \in S : x <= y

\* strings.HasPrefix
HasPrefix(s, prefix) ==
    /\ Len(prefix) <= Len(s)
    /\ SubSeq(s, 1, Len(prefix)) = prefix

\* strings.Contains(s, "..")
ContainsDotDot(s) ==
    \E i \in 1..(Len(s) - 1) : s[i] = "." /\ s[i + 1] = "."

\* the out.w-- loop of the ".." case of filepath.Clean
Backtrack(out, dotdot) ==
    LET W == {w \in 0..(Len(out) - 1) : w <= dotdot \/ out[w + 1] = "/"}
    IN  SubSeq(out, 1, Max(W))

\* index just past the path element that starts at r
ElemEnd(path, r) ==
    Min({e \in (r + 1)..(Len(path) + 1) : e = Len(path) + 1 \/ path[e] = "/"})

RECURSIVE CleanLoop(_, _, _, _)
CleanLoop(path, r, out, dotdot) ==
    LET n == Len(path)
        rooted == path[1] = "/"
    IN  IF r > n THEN out
        ELSE IF path[r] = "/" THEN CleanLoop(path, r + 1, out, dotdot)
        ELSE IF path[r] = "." /\ (r = n \/ path[r + 1] = "/")
             THEN CleanLoop(path, r + 1, out, dotdot)
        ELSE IF path[r] = "." /\ path[r + 1] = "."
                /\ (r + 1 = n \/ path[r + 2] = "/")
             THEN IF Len(out) > dotdot
                  THEN CleanLoop(path, r + 2, Backtrack(out, dotdot), dotdot)
                  ELSE IF ~rooted
                  THEN LET o2 == (IF Len(out) > 0 THEN Append(out, "/") ELSE out)
                                  \o <<".", ".">>
                       IN  CleanLoop(path, r + 2, o2, Len(o2))
                  ELSE CleanLoop(path, r + 2, out, dotdot)
        ELSE LET o1 == IF (rooted /\ Len(out) # 1) \/ (~rooted /\ Len(out) # 0)
                       THEN Append(out, "/") ELSE out
                 e == ElemEnd(path, r)
             IN  CleanLoop(path, e, o1 \o SubSeq(path, r, e - 1), dotdot)

\* filepath.Clean
Clean(path) ==
    IF path = <<>> THEN <<".">>
    ELSE LET rooted == path[1] = "/"
             out == IF rooted THEN CleanLoop(path, 2, <<"/">>, 1)
                    ELSE CleanLoop(path, 1, <<>>, 0)
         IN  IF out = <<>> THEN <<".">> ELSE out

\* filepath.Join of two elements
Join(a, b) ==
    IF a = <<>> THEN (IF b = <<>> THEN <<>> ELSE Clean(b))
    ELSE IF b = <<>> THEN Clean(a)
    ELSE Clean(a \o <<"/">> \o b)

\* filepath.Base
Base(path) ==
    IF path = <<>> THEN <<".">>
    ELSE LET T == {k \in 0..Len(path) : \A j \in (k + 1)..Len(path) : path[j] = "/"}
             k == Min(T)
             p == SubSeq(path, 1, k)
             S == {i \in 1..Len(p) : p[i] = "/"}
             b == IF S = {} THEN p ELSE SubSeq(p, Max(S) + 1, Len(p))
         IN  IF b = <<>> THEN <<"/">> ELSE b

\* filepath.Dir
Dir(path) ==
    LET S == {i \in 1..Len(path) : path[i] = "/"}
    IN  IF S = {} THEN <<".">> ELSE Clean(SubSeq(path, 1, Max(S)))

\* ------------------------------------------------------------------------
\* The storage filesystem: dirs is the set of directories, files maps the
\* path of every regular file to its bytes.  Paths are Clean()ed strings.
\* ------------------------------------------------------------------------

\* p is q or an ancestor directory of q
Within(q, p) ==
    \/ q = p
    \/ HasPrefix(q, p \o <<"/">>)
    \/ p = <<".">> /\ ~HasPrefix(q, <<".", ".">>) /\ q[1] # "/"

RECURSIVE AncestorsOrSelf(_)
AncestorsOrSelf(p) ==
    IF Dir(p) = p THEN {p} ELSE {p} \cup AncestorsOrSelf(Dir(p))

IsFile(fl, p) == p \in DOMAIN fl

\* os.MkdirAll: fails when the first existing ancestor is a regular file
MkdirAllOk(fl, p) == \A q \in AncestorsOrSelf(p) : ~IsFile(fl, q)
MkdirAllDirs(ds, p) == ds \cup AncestorsOrSelf(p)

\* os.Create (O_RDWR|O_CREATE|O_TRUNC)
CreateOk(ds, fl, p) == p \notin ds /\ Dir(p) \in ds /\ Dir(p) # p
CreateFiles(fl, p) == [q \in DOMAIN fl \cup {p} |-> IF q = p THEN <<>> ELSE fl[q]]

\* os.Stat: "file", "dir", ENOENT or ENOTDIR
Stat(ds, fl, p) ==
    IF p \in ds THEN "dir"
    ELSE IF IsFile(fl, p) THEN "file"
    ELSE IF \E q \in AncestorsOrSelf(p) : IsFile(fl, q) THEN "ENOTDIR"
    ELSE "ENOENT"

\* os.Remove: unlinks a file, or removes an empty directory
RemoveFiles(fl, p) == [q \in DOMAIN fl \ {p} |-> fl[q]]
RemoveDirs(ds, fl, p) ==
    IF /\ p \in ds
       /\ ~\E q \in (ds \cup DOMAIN fl) : q # p /\ Within(q, p)
    THEN ds \ {p} ELSE ds

\* os.RemoveAll
RemoveAllFiles(fl, p) == [q \in {x \in DOMAIN fl : ~Within(x, p)} |-> fl[q]]
\* a removal that empties the directory p and leaves p itself
RemoveContentsDirs(ds, p) == {x \in ds : ~Within(x, p) \/ x = p}
RemoveAllDirs(ds, p) == {x \in ds : ~Within(x, p)}

\* a write of chunk at byte offset off of an open file (holes read as zero)
WriteAt(data, off, chunk) ==
    LET n == Max({Len(data), off + Len(chunk)})
    IN  [i \in 1..n |->
            IF i > off /\ i <= off + Len(chunk) THEN chunk[i - off]
            ELSE IF i <= Len(data) THEN data[i] ELSE 0]

\* ------------------------------------------------------------------------
\* isTextFile (src/main.go)
\* ------------------------------------------------------------------------
InspectLimit == 8192
TextMinLen == 100
NullPercent == 1
ControlPercent == 5

\* unicode/utf8: length of the encoding that the lead byte b announces
\* (0: b cannot start an encoding), and the range of its second byte
Utf8Size(b) ==
    IF b < 128 THEN 1
    ELSE IF b >= 194 /\ b <= 223 THEN 2
    ELSE IF b >= 224 /\ b <= 239 THEN 3
    ELSE IF b >= 240 /\ b <= 244 THEN 4
    ELSE 0
Utf8Lo(b) == IF b = 224 THEN 160 ELSE IF b = 240 THEN 144 ELSE 128
Utf8Hi(b) == IF b = 237 THEN 159 ELSE IF b = 244 THEN 143 ELSE 191

RECURSIVE Utf8ValidFrom(_, _)
Utf8ValidFrom(content, i) ==
    LET n == Len(content)
        N == {j \in i..n : content[j] >= 128}
    IN  IF N = {} THEN TRUE
        ELSE LET j == Min(N)
                 size == Utf8Size(content[j])
             IN  /\ size # 0
                 /\ j + size - 1 <= n
                 /\ content[j + 1] >= Utf8Lo(content[j])
                 /\ content[j + 1] <= Utf8Hi(content[j])
                 /\ \A k \in (j + 2)..(j + size - 1) :
                        content[k] >= 128 /\ content[k] <= 191
                 /\ Utf8ValidFrom(content, j + size)

\* utf8.Valid
Utf8Valid(content) == Utf8ValidFrom(content, 1)

\* the indexes the loop of isTextFile visits: i = 0 .. 8192 (1-based here)
Inspected(content) == 1..Min({Len(content), InspectLimit + 1})

isTextFile(content) ==
    IF Len(content) = 0 THEN TRUE
    ELSE IF ~Utf8Valid(content) THEN FALSE
    ELSE LET nullBytes == Cardinality({i \in Inspected(content) : content[i] = 0})
             controlChars == Cardinality({i \in Inspected(content) :
                                 content[i] < 32 /\ content[i] \notin {9, 10, 13}})
             contentLen == Len(content)
         IN  IF contentLen > TextMinLen
             THEN IF nullBytes * 100 > NullPercent * contentLen THEN FALSE
                  ELSE IF controlChars * 100 > ControlPercent * contentLen THEN FALSE
                  ELSE TRUE
             ELSE TRUE

\* ------------------------------------------------------------------------
\* Identifiers and the storage root
\* ------------------------------------------------------------------------
BaseStorageDir == <<".", "/", "storage">>

\* the identifiers uuid.Parse accepts, among those of the model
WellFormedIDs == {"u1"}
CodebaseIDs == {"u1", "zz", ""}
\* a check of the identifier that tests for emptiness only
uuidNonEmpty(codebaseID) == codebaseID # ""
uuidParseOk(codebaseID) == codebaseID \in WellFormedIDs

IDString(codebaseID) == IF codebaseID = "" THEN <<>> ELSE <<codebaseID>>
StorageDir(codebaseID) == Join(BaseStorageDir, IDString(codebaseID))


\* ------------------------------------------------------------------------
\* Responses of the read handlers.  path is cleanPath; touched and outside
\* record whether the handler reached the filesystem, and whether it did so
\* at a path that is neither below baseDir nor one of its ancestors.
\* ------------------------------------------------------------------------
Response(op, id, path, status, msg) ==
    [op |-> op, id |-> id, path |-> path, esc |-> FALSE, status |-> status,
     msg |-> msg, body |-> <<>>, isText |-> FALSE, entries |-> {},
     touched |-> FALSE, outside |-> FALSE, open |-> 0, deferred |-> 0]

NoResp == Response("none", "", <<>>, 0, "")

\* File handles of a request.  open: the handles that are open; deferred: the
\* Close calls registered with defer, which run when the function returns
\* (after it, the number of Close calls that ran).
NoHandles == [open |-> 0, deferred |-> 0]

\* a handle opened with no Close registered for it
OpenedNoDefer(r) == [r EXCEPT !.open = @ + 1]

\* a successful open followed by `defer f.Close()` (lines 82-87, 118-123,
\* 273-278, 329-330, 364-368)
Opened(r) == [r EXCEPT !.open = @ + 1, !.deferred = @ + 1]

\* the function returns (or panics): its deferred Close calls run
Returned(r) == [r EXCEPT !.open = @ - r.deferred]

Allowed(p, baseDir) == Within(p, baseDir) \/ Within(baseDir, p)

Touching(r, p, baseDir) ==
    [r EXCEPT !.touched = TRUE, !.outside = ~Allowed(p, baseDir)]

\* the path check of getFileContent and downloadFile (lines 172 and 245)
ReadPathInvalid(cleanPath) ==
    HasPrefix(cleanPath, <<".", ".">>) \/ ContainsDotDot(cleanPath)

\* downloadFile.  A Stat error other than "not exist" leaves fileInfo nil and
\* fileInfo.IsDir() panics: no response is written (status 0)
downloadFile(ds, fl, codebaseID, filePath) ==
    LET cleanPath == Clean(filePath)
        baseDir == StorageDir(codebaseID)
        fullPath == Join(baseDir, cleanPath)
        st == Stat(ds, fl, fullPath)
        R(status, msg) == Response("download", codebaseID, cleanPath, status, msg)
        T(status, msg) == Touching(R(status, msg), fullPath, baseDir)
    IN  IF ~uuidParseOk(codebaseID) THEN R(400, "Invalid codebase ID")
        ELSE IF filePath = <<>> THEN R(400, "File path is required")
        ELSE IF ReadPathInvalid(cleanPath) THEN R(400, "Invalid file path")
        ELSE IF ~HasPrefix(fullPath, baseDir) THEN R(400, "Invalid file path")
        ELSE IF st = "ENOENT" THEN T(404, "File not found")
        ELSE IF st = "ENOTDIR" THEN T(0, "panic")
        ELSE IF st = "dir" THEN T(400, "Cannot download directory")
        ELSE [Returned(Opened(T(200, ""))) EXCEPT !.body = fl[fullPath]]

getFileContent(ds, fl, codebaseID, filePath) ==
    LET cleanPath == Clean(filePath)
        baseDir == StorageDir(codebaseID)
        fullPath == Join(baseDir, cleanPath)
        st == Stat(ds, fl, fullPath)
        R(status, msg) == Response("content", codebaseID, cleanPath, status, msg)
        T(status, msg) == Touching(R(status, msg), fullPath, baseDir)
    IN  IF ~uuidParseOk(codebaseID) THEN R(400, "Invalid codebase ID")
        ELSE IF filePath = <<>> THEN R(400, "File path is required")
        ELSE IF ReadPathInvalid(cleanPath) THEN R(400, "Invalid file path")
        ELSE IF ~HasPrefix(fullPath, baseDir) THEN R(400, "Invalid file path")
        ELSE IF st = "ENOENT" THEN T(404, "File not found")
        ELSE IF st = "ENOTDIR" THEN T(0, "panic")
        ELSE IF st = "dir" THEN T(400, "Cannot read directory as file")
        ELSE IF isTextFile(fl[fullPath])
             THEN [T(200, "") EXCEPT !.body = fl[fullPath], !.isText = TRUE]
             ELSE T(200, "Binary file - use download endpoint to get the file")

\* filepath.Rel(sourceDir, path) for a path the walk of sourceDir visits
Rel(sourceDir, path) ==
    IF path = sourceDir THEN <<".">>
    ELSE SubSeq(path, Len(sourceDir) + 2, Len(path))

\* strings.ReplaceAll(relativePath, "\\", "/")
ToSlash(relativePath) ==
    [i \in 1..Len(relativePath) |->
        IF relativePath[i] = "\\" THEN "/" ELSE relativePath[i]]

\* an entry named by the last element of p in place of its relative path
ZipEntryBaseName(ds, fl, sourceDir, p) ==
    IF p \in ds
    THEN [name |-> Base(p) \o <<"/">>, data |-> <<>>]
    ELSE [name |-> Base(p), data |-> fl[p]]

\* the archive entry the WalkDir callback writes for path p (lines 332-372)
ZipEntry(ds, fl, sourceDir, p) ==
    LET relativePath == ToSlash(Rel(sourceDir, p))
    IN  IF p \in ds
        THEN [name |-> relativePath \o <<"/">>, data |-> <<>>]
        ELSE [name |-> relativePath, data |-> fl[p]]

\* createZipArchive: WalkDir visits sourceDir and everything below it; the
\* entries are kept as a set, the order of the walk is left out
createZipArchive(ds, fl, sourceDir) ==
    LET visited == {p \in ds \cup DOMAIN fl : Within(p, sourceDir)}
    IN  {ZipEntry(ds, fl, sourceDir, p) :
            p \in {q \in visited : Rel(sourceDir, q) # <<".">>}}

\* the handles of createZipArchive: the zip writer, closed by the defer of
\* line 330, and one source file per walked file, opened and deferred inside
\* the callback (lines 364-368), whose defer runs when the callback returns
ZipHandles(r, walked) ==
    LET callback == Returned(Opened(NoHandles))
        n == Cardinality(walked)
    IN  [Returned(Opened(r)) EXCEPT !.open = @ + n * callback.open,
                                    !.deferred = @ + n * callback.deferred]

downloadZip(ds, fl, codebaseID) ==
    LET storageDir == StorageDir(codebaseID)
        R(status, msg) == Response("zip", codebaseID, <<>>, status, msg)
        T(status, msg) == Touching(R(status, msg), storageDir, storageDir)
    IN  IF ~uuidParseOk(codebaseID) THEN R(400, "Invalid codebase ID")
        ELSE IF Stat(ds, fl, storageDir) = "ENOENT"
             THEN T(404, "Codebase not found")
        ELSE [ZipHandles(T(200, ""), {p \in DOMAIN fl : Within(p, storageDir)})
                 EXCEPT !.entries = createZipArchive(ds, fl, storageDir)]

\* ------------------------------------------------------------------------
\* State
\* ------------------------------------------------------------------------
VARIABLES
    dirs,     \* the directories on disk
    files,    \* the regular files on disk: path -> bytes
    wk,       \* the storeFiles request of each worker
    resp,     \* the response of the read handler that ran, if one did
    ever,     \* history: the paths at which storeFiles has stored a file
    nreq,     \* the number of storeFiles requests begun
    content,  \* the buffer handed to isTextFile
    verdict   \* what isTextFile returned for it: "none", "text", "binary"

vars == <<dirs, files, wk, resp, ever, nreq, content, verdict>>
clvars == <<content, verdict>>

Workers == {1, 2}

\* the strings over chars of length at most n
Strs(chars, n) == UNION {[1..k -> chars] : k \in 0..n}

\* index just past the elements of path from r on that resolve below the
\* starting directory: TRUE iff resolving them steps above it
RECURSIVE Climbs(_, _, _)
Climbs(path, r, depth) ==
    IF r > Len(path) THEN FALSE
    ELSE IF path[r] = "/" THEN Climbs(path, r + 1, depth)
    ELSE LET e == ElemEnd(path, r)
             elem == SubSeq(path, r, e - 1)
         IN  IF elem = <<".">> THEN Climbs(path, e, depth)
             ELSE IF elem = <<".", ".">>
                  THEN depth = 0 \/ Climbs(path, e, depth - 1)
                  ELSE Climbs(path, e, depth + 1)

\* history: raw is a relative path with a parent-directory segment that
\* leads out of the directory it is resolved in
Escapes(raw) == raw # <<>> /\ raw[1] # "/" /\ Climbs(raw, 1, 0)

\* The file of the batch that storeFiles is dealing with.
\*   path: relativePath after Clean; dest: fullPath; data: the bytes of the
\*   part copied so far; esc: Escapes(relativePath before Clean)
FileRec(esc, path, dest, result) ==
    [esc |-> esc, path |-> path, dest |-> dest, data |-> <<>>, result |-> result]

NoFile == FileRec(FALSE, <<>>, <<>>, "none")

\* pc: "idle", "loop" (between two files), "copy" (inside io.Copy), "done"
\* n: len(files); k: files dealt with; nStored: len(storedFiles)
\* live: the open destination is still the file linked at cur.dest
\* log: history of the files dealt with; madeDir, touched, outside: history
\* open, deferred: the file handles of the request (see Opened)
IdleWorker ==
    [pc |-> "idle", id |-> "", n |-> 0, k |-> 0, nStored |-> 0,
     totalSize |-> 0, cur |-> NoFile, live |-> FALSE, log |-> <<>>,
     madeDir |-> FALSE, status |-> 0, msg |-> "", touched |-> FALSE,
     outside |-> FALSE, open |-> 0, deferred |-> 0]

Init ==
    /\ dirs = MkdirAllDirs({<<".">>}, Clean(BaseStorageDir))
    /\ files = <<>>
    /\ wk = [w \in Workers |-> IdleWorker]
    /\ resp = NoResp
    /\ ever = {}
    /\ nreq = 0
    /\ content = <<>>
    /\ verdict = "none"

\* every other worker copying into a destination that has just been unlinked
\* keeps writing to a file that is no longer on disk
Unlink(w, gone(_)) ==
    [v \in Workers |->
        IF v # w /\ wk[v].pc = "copy" /\ gone(wk[v].cur.dest)
        THEN [wk[v] EXCEPT !.live = FALSE] ELSE wk[v]]

Touch(r, ps) ==
    [r EXCEPT !.touched = TRUE,
              !.outside = @ \/ \E p \in ps : ~Allowed(p, StorageDir(r.id))]

\* ------------------------------------------------------------------------
\* storeFiles
\* ------------------------------------------------------------------------

\* lines 47-76: parse the form, validate the identifier, create storageDir
StoreBegin(w, codebaseID, n, fault, limit) ==
    LET storageDir == StorageDir(codebaseID)
        req == [IdleWorker EXCEPT !.id = codebaseID, !.n = n]
        Reply(status, msg) ==
            [req EXCEPT !.pc = "done", !.status = status, !.msg = msg]
    IN  /\ wk[w].pc \in {"idle", "done"}
        /\ resp = NoResp
        /\ nreq < limit
        /\ nreq' = nreq + 1
        /\ UNCHANGED <<resp, ever, files, clvars>>
        /\ IF fault = "parse"
           THEN /\ wk' = [wk EXCEPT ![w] =
                             Reply(400, "File too large or invalid form data")]
                /\ UNCHANGED dirs
           ELSE IF codebaseID = ""
           THEN /\ wk' = [wk EXCEPT ![w] = Reply(400, "Codebase ID is required")]
                /\ UNCHANGED dirs
           ELSE IF ~uuidParseOk(codebaseID)
           THEN /\ wk' = [wk EXCEPT ![w] = Reply(400, "Invalid codebase ID")]
                /\ UNCHANGED dirs
           ELSE IF n = 0
           THEN /\ wk' = [wk EXCEPT ![w] = Reply(400, "No files provided")]
                /\ UNCHANGED dirs
           ELSE IF fault = "mkdir" \/ ~MkdirAllOk(files, storageDir)
           THEN /\ wk' = [wk EXCEPT ![w] =
                             Touch(Reply(500, "Failed to create storage directory"),
                                   {storageDir})]
                /\ UNCHANGED dirs
           ELSE /\ wk' = [wk EXCEPT ![w] =
                             Touch([req EXCEPT !.pc = "loop",
                                               !.madeDir = storageDir \notin dirs],
                                   {storageDir})]
                /\ dirs' = MkdirAllDirs(dirs, storageDir)

\* the worker after an iteration of the loop that ended with `continue` or at
\* the bottom of the loop; hist: keep the history of the batch
Dealt(r, rec, hist) ==
    [r EXCEPT !.k = @ + 1, !.cur = NoFile, !.pc = "loop", !.live = FALSE,
              !.log = IF hist THEN Append(@, rec) ELSE @]

\* lines 82-86: fileHeader.Open fails
StoreOpenFail(w, hist) ==
    /\ wk[w].pc = "loop"
    /\ wk[w].k < wk[w].n
    /\ wk' = [wk EXCEPT ![w] = Dealt(@, FileRec(FALSE, <<>>, <<>>, "open"), hist)]
    /\ UNCHANGED <<dirs, files, resp, ever, nreq, clvars>>

\* a check that rejects the path ".." alone
StorePathIsDotDot(relativePath) == relativePath = <<".", ".">>

\* the check of the cleaned relativePath, line 103
StorePathInvalid(relativePath) == HasPrefix(relativePath, <<".", ".">>)

\* lines 82-123: one file of the batch up to os.Create.  filename is
\* fileHeader.Filename, pathField is r.FormValue("path_" + filename).  The
\* part has been opened (line 82) in every branch; the last one has opened
\* the destination too (line 118)
StoreFile(w, filename, pathField, hist) ==
    LET storageDir == StorageDir(wk[w].id)
        fileName == Base(filename)
        raw == IF pathField = <<>> THEN fileName ELSE pathField
        relativePath == Clean(raw)
        fullPath == Join(storageDir, relativePath)
        rec(result) == FileRec(Escapes(raw), relativePath, fullPath, result)
    IN  /\ wk[w].pc = "loop"
        /\ wk[w].k < wk[w].n
        /\ UNCHANGED <<resp, ever, nreq, clvars>>
        /\ IF fileName \in {<<>>, <<".">>, <<".", ".">>}
           THEN /\ wk' = [wk EXCEPT ![w] =
                            Dealt(Opened(@),
                                  FileRec(Escapes(filename), <<>>, <<>>, "name"),
                                  hist)]
                /\ UNCHANGED <<dirs, files>>
           ELSE IF StorePathInvalid(relativePath)
           THEN /\ wk' = [wk EXCEPT ![w] =
                            Dealt(Opened(@),
                                  FileRec(Escapes(raw), relativePath, <<>>, "path"),
                                  hist)]
                /\ UNCHANGED <<dirs, files>>
           ELSE IF ~MkdirAllOk(files, Dir(fullPath))
           THEN /\ wk' = [wk EXCEPT ![w] =
                            Dealt(Touch(Opened(@), {Dir(fullPath)}),
                                  rec("mkdir"), hist)]
                /\ UNCHANGED <<dirs, files>>
           ELSE IF ~CreateOk(MkdirAllDirs(dirs, Dir(fullPath)), files, fullPath)
           THEN /\ wk' = [wk EXCEPT ![w] =
                            Dealt(Touch(Opened(@), {Dir(fullPath), fullPath}),
                                  rec("create"), hist)]
                /\ dirs' = MkdirAllDirs(dirs, Dir(fullPath))
                /\ UNCHANGED files
           ELSE /\ wk' = [wk EXCEPT ![w] =
                            [Touch(Opened(Opened(@)), {Dir(fullPath), fullPath})
                             EXCEPT
                                !.cur = rec("copy"), !.pc = "copy", !.live = TRUE]]
                /\ dirs' = MkdirAllDirs(dirs, Dir(fullPath))
                /\ files' = CreateFiles(files, fullPath)

\* line 125: io.Copy moves the next chunk of the part to the destination, at
\* the offset of this request's own file descriptor
StoreCopyChunk(w, chunk, maxLen) ==
    LET f == wk[w].cur
    IN  /\ wk[w].pc = "copy"
        /\ Len(f.data) + Len(chunk) <= maxLen
        /\ wk' = [wk EXCEPT ![w].cur.data = @ \o chunk]
        /\ files' = IF wk[w].live
                    THEN [files EXCEPT ![f.dest] = WriteAt(@, Len(f.data), chunk)]
                    ELSE files
        /\ UNCHANGED <<dirs, resp, ever, nreq, clvars>>

\* lines 126-130: io.Copy fails; the destination path is removed
StoreCopyFail(w, hist) ==
    LET f == wk[w].cur
    IN  /\ wk[w].pc = "copy"
        /\ files' = RemoveFiles(files, f.dest)
        /\ dirs' = RemoveDirs(dirs, files, f.dest)
        /\ wk' = [Unlink(w, LAMBDA d : d = f.dest) EXCEPT
                     ![w] = Dealt(@, [f EXCEPT !.result = "copyfail"], hist)]
        /\ UNCHANGED <<resp, ever, nreq, clvars>>

\* lines 132-134: io.Copy has reached the end of the part
StoreCopyDone(w, hist) ==
    LET f == wk[w].cur
    IN  /\ wk[w].pc = "copy"
        /\ wk' = [wk EXCEPT ![w] =
                    Dealt([@ EXCEPT !.totalSize = @ + Len(f.data),
                                    !.nStored = @ + 1],
                          [f EXCEPT !.result = "stored"], hist)]
        /\ ever' = ever \cup {f.dest}
        /\ UNCHANGED <<dirs, files, resp, nreq, clvars>>

\* lines 137-151: after the last file
StoreFinish(w) ==
    LET storageDir == StorageDir(wk[w].id)
    IN  /\ wk[w].pc = "loop"
        /\ wk[w].k = wk[w].n
        /\ UNCHANGED <<resp, ever, nreq, clvars>>
        /\ IF wk[w].nStored = 0
           THEN /\ files' = RemoveAllFiles(files, storageDir)
                /\ dirs' = RemoveAllDirs(dirs, storageDir)
                /\ wk' = [Unlink(w, LAMBDA d : Within(d, storageDir)) EXCEPT
                             ![w] = [Returned(@) EXCEPT
                                        !.pc = "done",
                                        !.status = 400,
                                        !.msg = "No valid files were stored"]]
           ELSE /\ wk' = [wk EXCEPT ![w] = [Returned(@) EXCEPT
                                               !.pc = "done",
                                               !.status = 200,
                                               !.msg = "Successfully stored"]]
                /\ UNCHANGED <<dirs, files>>

\* ------------------------------------------------------------------------
\* The read handlers.  They run when no storeFiles request is in progress;
\* the record of a finished request is dropped.
\* ------------------------------------------------------------------------
Quiet == \A w \in Workers : wk[w].pc \in {"idle", "done"}

Read(r) ==
    /\ Quiet /\ resp = NoResp
    /\ resp' = r
    /\ wk' = [w \in Workers |-> IdleWorker]
    /\ UNCHANGED <<dirs, files, ever, nreq, clvars>>

DownloadFile(codebaseID, filePath) ==
    Read([downloadFile(dirs, files, codebaseID, filePath)
             EXCEPT !.esc = Escapes(filePath)])

GetFileContent(codebaseID, filePath) ==
    Read([getFileContent(dirs, files, codebaseID, filePath)
             EXCEPT !.esc = Escapes(filePath)])

DownloadZip(codebaseID) == Read(downloadZip(dirs, files, codebaseID))

\* ------------------------------------------------------------------------
\* Spec: requests served one after the other
\* ------------------------------------------------------------------------
BeginFaults == {"none", "parse", "mkdir"}
FileNames == {<<"x">>, <<".", ".">>}
Paths ==
    { <<"x">>, <<"sub", "/", "y">>, <<"x", "/", "y">>, <<"x", ".", ".", "y">>,
      <<".", ".", "/", "x">>, <<"sub", "/", ".", ".", "/", "x">>, <<".">> }
ReadPaths == Paths \cup {<<>>, <<"sub">>}

\* the bytes a worker uploads: each worker sends its own byte value
Chunk(w) == <<64 + w>>

SeqStoreBegin ==
    \E id \in CodebaseIDs, n \in 0..MaxBatch, fault \in BeginFaults :
        StoreBegin(1, id, n, fault, MaxStores)
SeqStoreOpenFail == StoreOpenFail(1, FALSE)
SeqStoreFile ==
    \E fn \in FileNames, pf \in Paths \cup {<<>>} : StoreFile(1, fn, pf, FALSE)
SeqStoreCopyChunk == StoreCopyChunk(1, Chunk(1), MaxContentLen)
SeqStoreCopyFail == StoreCopyFail(1, FALSE)
SeqStoreCopyDone == StoreCopyDone(1, FALSE)
SeqStoreFinish == StoreFinish(1)
SeqDownloadFile == \E id \in CodebaseIDs, p \in ReadPaths : DownloadFile(id, p)
SeqGetFileContent == \E id \in CodebaseIDs, p \in ReadPaths : GetFileContent(id, p)
SeqDownloadZip == \E id \in CodebaseIDs : DownloadZip(id)

Next ==
    \/ SeqStoreBegin
    \/ SeqStoreOpenFail
    \/ SeqStoreFile
    \/ SeqStoreCopyChunk
    \/ SeqStoreCopyFail
    \/ SeqStoreCopyDone
    \/ SeqStoreFinish
    \/ SeqDownloadFile
    \/ SeqGetFileContent
    \/ SeqDownloadZip

Spec == Init /\ [][Next]_vars

\* ------------------------------------------------------------------------
\* SpecConc: storeFiles requests of two workers to one CodebaseID, their
\* filesystem steps interleaved; the history of each batch is kept
\* ------------------------------------------------------------------------
ConcPaths == {<<"x">>, <<"x", "/", "y">>, <<".", ".", "/", "x">>}

ConcStoreBegin ==
    \E w \in Workers, n \in 1..MaxBatch :
        StoreBegin(w, "u1", n, "none", MaxConcStores)
ConcStoreOpenFail == \E w \in Workers : StoreOpenFail(w, TRUE)
ConcStoreFile == \E w \in Workers, pf \in ConcPaths : StoreFile(w, <<"x">>, pf, TRUE)
ConcStoreCopyChunk ==
    \E w \in Workers : StoreCopyChunk(w, Chunk(w), MaxConcContentLen)
ConcStoreCopyFail == \E w \in Workers : StoreCopyFail(w, TRUE)
ConcStoreCopyDone == \E w \in Workers : StoreCopyDone(w, TRUE)
ConcStoreFinish == \E w \in Workers : StoreFinish(w)

NextConc ==
    \/ ConcStoreBegin
    \/ ConcStoreOpenFail
    \/ ConcStoreFile
    \/ ConcStoreCopyChunk
    \/ ConcStoreCopyFail
    \/ ConcStoreCopyDone
    \/ ConcStoreFinish

SpecConc == Init /\ [][NextConc]_vars

\* ------------------------------------------------------------------------
\* SpecTraversal: one request, of one file, on the empty storage, with every
\* path string of up to MaxTravLen symbols
\* ------------------------------------------------------------------------
TravChars == {"a", ".", "/"}
TravStrs == Strs(TravChars, MaxTravLen)

TravStoreBegin == \E id \in CodebaseIDs : StoreBegin(1, id, 1, "none", 1)
TravStoreFile ==
    /\ wk[1].pc = "loop"
    /\ \E s \in TravStrs :
          \/ StoreFile(1, <<"a">>, s, TRUE)
          \/ s # <<>> /\ StoreFile(1, s, <<>>, TRUE)
TravStoreCopyChunk == StoreCopyChunk(1, Chunk(1), MaxContentLen)
TravStoreCopyFail == StoreCopyFail(1, TRUE)
TravStoreCopyDone == StoreCopyDone(1, TRUE)
TravStoreFinish == StoreFinish(1)
TravDownloadFile ==
    /\ nreq = 0 /\ resp = NoResp
    /\ \E id \in CodebaseIDs, p \in TravStrs : DownloadFile(id, p)
TravGetFileContent ==
    /\ nreq = 0 /\ resp = NoResp
    /\ \E id \in CodebaseIDs, p \in TravStrs : GetFileContent(id, p)

NextTraversal ==
    \/ TravStoreBegin
    \/ TravStoreFile
    \/ TravStoreCopyChunk
    \/ TravStoreCopyFail
    \/ TravStoreCopyDone
    \/ TravStoreFinish
    \/ TravDownloadFile
    \/ TravGetFileContent

SpecTraversal == Init /\ [][NextTraversal]_vars

\* ------------------------------------------------------------------------
\* SpecClassifier: isTextFile applied to a buffer
\* ------------------------------------------------------------------------

\* the buffer of n bytes that repeats pat
Repeat(pat, n) == [i \in 1..n |-> pat[((i - 1) % Len(pat)) + 1]]

OneNullInTen == <<0, 65, 66, 67, 68, 69, 70, 71, 72, 73>>
AsciiPatterns == {<<65>>, <<32, 126>>, OneNullInTen, <<65, 9, 10>>, <<65, 65, 65, 1>>}
OtherPatterns == {<<255>>, <<65, 128>>, <<195, 169>>, <<65, 195>>, <<226, 130, 172>>,
                  <<237, 160, 128>>}
ShortLens == 1..MaxShortLen
LongLens == {TextMinLen, TextMinLen + 1, 2 * TextMinLen, InspectLimit,
             InspectLimit + 1, 10 * InspectLimit, MaxBufLen}
Buffers ==
    {<<>>} \cup {Repeat(pat, n) : pat \in AsciiPatterns, n \in ShortLens \cup LongLens}
           \cup {Repeat(pat, n) : pat \in OtherPatterns, n \in ShortLens}

InitClassifier ==
    /\ dirs = MkdirAllDirs({<<".">>}, Clean(BaseStorageDir))
    /\ files = <<>>
    /\ wk = [w \in Workers |-> IdleWorker]
    /\ resp = NoResp
    /\ ever = {}
    /\ nreq = 0
    /\ content \in Buffers
    /\ verdict = "none"

Classify ==
    /\ verdict = "none"
    /\ verdict' = IF isTextFile(content) THEN "text" ELSE "binary"
    /\ UNCHANGED <<dirs, files, wk, resp, ever, nreq, content>>

NextClassifier == Classify

SpecClassifier == InitClassifier /\ [][NextClassifier]_vars

\* ------------------------------------------------------------------------
\* Claims checked under Spec
\* ------------------------------------------------------------------------
ReadOps == {"download", "content"}

\* the file the read request in resp asks for
RespDest == Join(StorageDir(resp.id), resp.path)

\* C2: a request whose CodebaseID is not a well-formed UUID (the empty string
\* included) is answered 400 and has performed no operation on the storage
\* filesystem, in storeFiles, getFileContent, downloadFile and downloadZip.
C2_InvalidIdBeforeFilesystem ==
    /\ \A w \in Workers :
          wk[w].pc # "idle" /\ wk[w].msg # "File too large or invalid form data"
              /\ wk[w].id \notin WellFormedIDs
          => wk[w].pc = "done" /\ wk[w].status = 400 /\ ~wk[w].touched
    /\ resp.op # "none" /\ resp.id \notin WellFormedIDs
          => resp.status = 400 /\ ~resp.touched

C2_Witness ==
    wk[1].pc = "done" /\ wk[1].id = "zz" /\ wk[1].n > 0 /\ wk[1].status = 400
        /\ nreq = 2 /\ StorageDir("u1") \in dirs

\* C3: a file that storeFiles has stored at relative path p, and that is
\* still on disk, is returned byte for byte by downloadFile with file=p.
C3_RoundTrip ==
    resp.op = "download" /\ resp.id \in WellFormedIDs /\ RespDest \in DOMAIN files
        => resp.status = 200 /\ resp.body = files[RespDest]

\* C5: a storeFiles request that stores no file is answered with an error,
\* and the codebase directory it created is not on disk when it returns.
C5_AllFailedRollback ==
    \A w \in Workers :
        wk[w].pc = "done" /\ wk[w].nStored = 0
        => /\ wk[w].status >= 400
           /\ ~(wk[w].madeDir /\ StorageDir(wk[w].id) \in dirs)

C5_Witness ==
    /\ wk[1].pc = "done" /\ wk[1].n = MaxBatch /\ wk[1].k = wk[1].n
    /\ wk[1].nStored = 0 /\ wk[1].madeDir /\ wk[1].status = 400
    /\ wk[1].touched

\* C6: getFileContent and downloadFile answer 404 for a valid CodebaseID and
\* a path that passes validation at which no file was ever stored, unless the
\* path names a directory, which is answered with the directory error;
\* downloadZip answers 404 for a CodebaseID under which no file was ever stored.
C6_NotFoundSemantics ==
    /\ resp.op \in ReadOps /\ resp.id \in WellFormedIDs
          /\ resp.msg \notin {"File path is required", "Invalid file path"}
       => /\ RespDest \in dirs
               => resp.status = 400
                    /\ resp.msg \in {"Cannot download directory",
                                     "Cannot read directory as file"}
          /\ RespDest \notin dirs /\ RespDest \notin ever => resp.status = 404
    /\ resp.op = "zip" /\ resp.id \in WellFormedIDs
          /\ (~\E p \in ever : Within(p, StorageDir(resp.id)))
       => resp.status = 404

\* the entry of the archive that stands for path p of the codebase
EntriesFor(p) == {e \in resp.entries : Join(StorageDir(resp.id), e.name) = p}
IsDirEntry(e) == e.name[Len(e.name)] = "/"
Below(S) == {p \in S : Within(p, StorageDir(resp.id)) /\ p # StorageDir(resp.id)}

\* C7 as stated: the entries of the archive are exactly the stored files of
\* the codebase, one entry per file and no other entry.
C7_ArchiveOnlyFiles ==
    resp.op = "zip" /\ resp.status = 200
    => /\ \A p \in Below(DOMAIN files) : Cardinality(EntriesFor(p)) = 1
       /\ \A e \in resp.entries :
             /\ ~IsDirEntry(e)
             /\ Join(StorageDir(resp.id), e.name) \in Below(DOMAIN files)
             /\ e.data = files[Join(StorageDir(resp.id), e.name)]

\* C7 amended: the archive holds one entry per stored file, named by its path
\* relative to the codebase root, with forward slashes only, and carrying the
\* stored bytes; and one empty entry "<path>/" per directory below the
\* codebase root; and nothing else.
C7_ArchiveFilesAndDirs ==
    resp.op = "zip" /\ resp.status = 200
    => /\ \A p \in Below(DOMAIN files) \cup Below(dirs) :
             Cardinality(EntriesFor(p)) = 1
       /\ \A e \in resp.entries :
             LET p == Join(StorageDir(resp.id), e.name)
             IN  /\ \A i \in 1..Len(e.name) : e.name[i] # "\\"
                 /\ e.name[1] # "/"
                 /\ IF IsDirEntry(e)
                    THEN p \in Below(dirs) /\ e.data = <<>>
                    ELSE p \in Below(DOMAIN files) /\ e.data = files[p]

C7_Witness ==
    /\ resp.op = "zip" /\ resp.status = 200
    /\ Below(DOMAIN files) =
          {Join(StorageDir("u1"), <<"x">>), Join(StorageDir("u1"), <<"sub", "/", "y">>)}
    /\ Cardinality(resp.entries) = 3

\* C12: when a handler has returned, every file handle it opened (the parts
\* and destinations of storeFiles, the source file of downloadFile, the zip
\* writer and the walked source files of createZipArchive) has been closed,
\* whichever files were skipped or failed.
C12_GuaranteedRelease ==
    /\ \A w \in Workers : wk[w].pc = "done" => wk[w].open = 0
    /\ resp.op # "none" => resp.open = 0

\* a batch of MaxBatch files of which one was stored and the others were
\* given up after their part was opened: MaxBatch + 1 handles, all closed
C12_Witness ==
    /\ wk[1].pc = "done" /\ wk[1].n = MaxBatch /\ wk[1].nStored = 1
    /\ wk[1].deferred = MaxBatch + 1 /\ wk[1].open = 0

\* ------------------------------------------------------------------------
\* Claims checked under SpecTraversal
\* ------------------------------------------------------------------------

\* C1: a relative path with a parent-directory segment that leads out of
\* root/CodebaseID is rejected: storeFiles skips the file before any
\* filesystem operation, getFileContent and downloadFile answer 400 "Invalid
\* file path"; and no request operates on a path outside root/CodebaseID.
C1_TraversalRejected ==
    /\ \A w \in Workers :
          /\ ~wk[w].outside
          /\ ~wk[w].cur.esc
          /\ \A i \in 1..Len(wk[w].log) :
                wk[w].log[i].esc => wk[w].log[i].result \in {"name", "path"}
    /\ ~resp.outside
    /\ \A p \in DOMAIN files : Within(p, StorageDir("u1"))
    /\ resp.op \in ReadOps /\ resp.esc /\ resp.id \in WellFormedIDs
          => resp.status = 400 /\ resp.msg = "Invalid file path" /\ ~resp.touched

C1_Witness ==
    /\ wk[1].pc = "done" /\ Len(wk[1].log) = 1
    /\ wk[1].log[1].esc /\ wk[1].log[1].result = "path"
    /\ wk[1].log[1].path = <<".", ".", "/", ".", ".", "/", "a">>
    /\ files = <<>>

\* the results of a file of the batch for which os.Create was called
CreateResults == {"create", "copy", "stored", "copyfail"}

\* p is below the directory of the codebase, and is not that directory
StrictlyBelow(p, codebaseID) ==
    Within(p, StorageDir(codebaseID)) /\ p # StorageDir(codebaseID)

\* C11: the path on which a request that passed path validation calls
\* os.Stat, os.Open, os.ReadFile (getFileContent, downloadFile) or os.Create
\* (storeFiles) is a strict descendant of root/CodebaseID: it is neither
\* that directory itself nor a path outside it.
C11_StrictRootContainment ==
    /\ resp.op \in ReadOps /\ resp.touched => StrictlyBelow(RespDest, resp.id)
    /\ \A w \in Workers :
          /\ wk[w].cur.result \in CreateResults
                => StrictlyBelow(wk[w].cur.dest, wk[w].id)
          /\ \A i \in 1..Len(wk[w].log) :
                wk[w].log[i].result \in CreateResults
                => StrictlyBelow(wk[w].log[i].dest, wk[w].id)

\* ------------------------------------------------------------------------
\* Claims checked under SpecConc
\* ------------------------------------------------------------------------
StoredIdx(w) == {i \in 1..Len(wk[w].log) : wk[w].log[i].result = "stored"}
FailedIdx(w) == {i \in 1..Len(wk[w].log) : wk[w].log[i].result # "stored"}

RECURSIVE SizeSum(_, _)
SizeSum(log, I) ==
    IF I = {} THEN 0
    ELSE LET i == CHOOSE j \in I : TRUE
         IN  Len(log[i].data) + SizeSum(log, I \ {i})

\* C4: in a batch of N >= 2 files of which exactly one fails, wherever it
\* stands in the batch, the response is success with count N-1 and the sum of
\* the sizes of the other files, each of the other files is on disk with the
\* bytes of the last file stored at its destination, and what is left at the
\* destination of a file whose copy failed is not its partial content.
C4_PartialFailureIsolation ==
    \A w \in Workers :
        LET log == wk[w].log
        IN  nreq = 1 /\ wk[w].pc = "done" /\ Len(log) = wk[w].n /\ wk[w].n >= 2
               /\ Cardinality(FailedIdx(w)) = 1
            => /\ wk[w].status = 200
               /\ wk[w].nStored = wk[w].n - 1
               /\ wk[w].totalSize = SizeSum(log, StoredIdx(w))
               /\ \A i \in StoredIdx(w) :
                     LET last == Max({j \in StoredIdx(w) : log[j].dest = log[i].dest})
                     IN  /\ log[i].dest \in DOMAIN files
                         /\ files[log[i].dest] = log[last].data
               /\ \A i \in FailedIdx(w) :
                     log[i].result = "copyfail" /\ log[i].dest \in DOMAIN files
                     => \E j \in StoredIdx(w) : log[j].dest = log[i].dest

\* C9: a step of a storeFiles request removes no file from the disk, except
\* the destination it is itself copying to when that copy fails.
C9_NoUploadDestroysFiles ==
    [][\A p \in DOMAIN files :
          \/ p \in DOMAIN files'
          \/ \E w \in Workers :
                wk[w].pc = "copy" /\ wk[w].cur.dest = p /\ wk'[w].pc = "loop"]_vars

\* C10: when the only two requests both store one file at the same path and
\* both succeed, the file on disk is the complete content of one of them.
C10_LastCompletedWriteWins ==
    ( /\ nreq = 2
      /\ \A w \in Workers :
            /\ wk[w].pc = "done" /\ wk[w].status = 200 /\ wk[w].n = 1
            /\ Len(wk[w].log) = 1 /\ wk[w].log[1].result = "stored"
      /\ wk[1].log[1].dest = wk[2].log[1].dest )
    => /\ wk[1].log[1].dest \in DOMAIN files
       /\ files[wk[1].log[1].dest] \in {wk[1].log[1].data, wk[2].log[1].data}

\* ------------------------------------------------------------------------
\* Claims checked under SpecClassifier
\* ------------------------------------------------------------------------
PrintableAscii(buf) == \A i \in 1..Len(buf) : buf[i] >= 32 /\ buf[i] <= 126
OneNullPerTen(buf) ==
    Len(buf) > 0 /\ \A i \in 1..Len(buf) : (buf[i] = 0) <=> (i % 10 = 1)

\* C8: isTextFile returns text for a buffer of printable ASCII only, binary
\* for a non-empty buffer of any length in which one byte in every 10 is
\* zero, and binary for a buffer that is not valid UTF-8.
C8_ClassifierVerdicts ==
    verdict # "none"
    => /\ PrintableAscii(content) => verdict = "text"
       /\ OneNullPerTen(content) => verdict = "binary"
       /\ ~Utf8Valid(content) => verdict = "binary"

====
